---- MODULE Spec2Model ----
(***************************************************************************)
(* Model of the two FastAPI deployment services of the repository:         *)
(*   fastapi_k8s_deploy.py  ("strict" app: deploy_to_k8s, deploy_to_ecs)   *)
(*   fastapi2.py            ("legacy" app: k8s_deploy, ecs_deploy)         *)
(* Each request slot carries the parsed request body, the handler's        *)
(* position, its local variables and its HTTP response.  The Kubernetes    *)
(* client library's default configuration (written by load_kube_config*,   *)
(* read by the argument-less AppsV1Api()) is one variable per process, and *)
(* every call made to a platform is appended to a call log, as a fake      *)
(* client would record it.                                                 *)
(***************************************************************************)
EXTENDS Integers, Sequences, FiniteSets, TLC

\* Number of request slots (requests that may be in flight together).
MaxReq == 2

Reqs == 1..MaxReq

Apps == {"strict", "legacy"}

\* Kubeconfig blobs sent to the strict app, base64 text as ASCII codes
\* (Q = 81, / = 47, = is 61, ! = 33): "QQ==", "QQQ", "!QQQQ", "////".
Blobs ==
    { <<81, 81, 61, 61>>,
      <<81, 81, 81>>,
      <<33, 81, 81, 81, 81>>,
      <<47, 47, 47, 47>> }

\* Kubeconfig file paths sent to the legacy app, as ASCII codes: "/a", "/b".
Paths == { <<47, 97>>, <<47, 98>> }

Names == {"web", "api"}

\* Names where the name plays no part in what the handler does.
Clusters == {"web"}
Services == {"svc"}
Families == {"td"}
Regions == {"us-east-1"}

Ports == {-1, 0, 1, 65535, 65536}

\* Image references: <<scheme, rest>>; "nginx:latest" has no scheme.
Images == { <<"http", "reg/nginx">>, <<"", "nginx:latest">> }
LegacyImages == { <<"", "nginx:latest">> }

\* What a platform call can do: return, or raise.
Outcomes == {"ok", "unauthorized", "conflict", "transport"}

\* Marker of a configuration nobody has loaded yet.
NoConfig == << -1 >>

NoArn == <<"none", "", 0>>

\* ---------------------------------------------------------------------
\* pydantic models

\* Field(..., gt=0, lt=65536)
container_port_ok(p) == p > 0 /\ p < 65536

\* HttpUrl: an http or https scheme and something after it.
HttpUrl_ok(img) == img[1] \in {"http", "https"} /\ img[2] # ""

NoErrors == [container_port |-> {}, container_image_url |-> {}]

\* DeploymentDetails / ECSDeploymentDetails: the fields pydantic refuses, each
\* with the input it refused.
DeploymentDetails_errors(image, port) ==
    [container_port |-> IF container_port_ok(port) THEN {} ELSE {port},
     container_image_url |-> IF HttpUrl_ok(image) THEN {} ELSE {image}]

\* fastapi2.py: port is a plain int, container_image a plain str.
K8sDeployRequest_errors(image, port) == NoErrors

EcsDeployRequestFieldsWithRegion ==
    {"aws_access_key_id", "aws_secret_access_key", "cluster_name",
     "region", "container_image", "port"}
\* fastapi2.py: the fields EcsDeployRequest declares.
EcsDeployRequestFields ==
    {"aws_access_key_id", "aws_secret_access_key", "cluster_name",
     "container_image", "port"}

\* ---------------------------------------------------------------------
\* base64.b64decode(s) (validate=False) followed by .decode('utf-8')

B64Table(c) ==
    IF c >= 65 /\ c <= 90 THEN c - 65
    ELSE IF c >= 97 /\ c <= 122 THEN c - 71
    ELSE IF c >= 48 /\ c <= 57 THEN c + 4
    ELSE IF c = 43 THEN 62
    ELSE IF c = 47 THEN 63
    ELSE 64

RECURSIVE a2b_base64(_, _, _, _, _, _)
a2b_base64(s, i, quad, left, pads, out) ==
    IF i > Len(s)
    THEN IF quad = 0 THEN [ok |-> TRUE, data |-> out, err |-> ""]
         ELSE IF quad = 1
         THEN [ok |-> FALSE, data |-> <<>>, err |-> "Invalid base64-encoded string"]
         ELSE [ok |-> FALSE, data |-> <<>>, err |-> "Incorrect padding"]
    ELSE IF s[i] = 61
    THEN IF quad >= 2 /\ quad + pads + 1 >= 4
         THEN [ok |-> TRUE, data |-> out, err |-> ""]
         ELSE a2b_base64(s, i + 1, quad, left,
                         IF quad >= 2 THEN pads + 1 ELSE pads, out)
    ELSE IF B64Table(s[i]) >= 64
    THEN a2b_base64(s, i + 1, quad, left, pads, out)
    ELSE LET v == B64Table(s[i]) IN
         CASE quad = 0 -> a2b_base64(s, i + 1, 1, v, 0, out)
           [] quad = 1 -> a2b_base64(s, i + 1, 2, v % 16, 0,
                                     Append(out, (left * 4 + v \div 16) % 256))
           [] quad = 2 -> a2b_base64(s, i + 1, 3, v % 4, 0,
                                     Append(out, (left * 16 + v \div 4) % 256))
           [] quad = 3 -> a2b_base64(s, i + 1, 0, 0, 0,
                                     Append(out, (left * 64 + v) % 256))

b64decode(s) == a2b_base64(s, 1, 0, 0, 0, <<>>)

IsCont(b) == b >= 128 /\ b <= 191

RECURSIVE utf8_ok(_, _)
utf8_ok(b, i) ==
    IF i > Len(b) THEN TRUE
    ELSE IF b[i] < 128 THEN utf8_ok(b, i + 1)
    ELSE IF b[i] >= 194 /\ b[i] <= 223
    THEN i + 1 <= Len(b) /\ IsCont(b[i + 1]) /\ utf8_ok(b, i + 2)
    ELSE IF b[i] >= 224 /\ b[i] <= 239
    THEN /\ i + 2 <= Len(b)
         /\ IsCont(b[i + 1])
         /\ IsCont(b[i + 2])
         /\ (b[i] = 224 => b[i + 1] >= 160)
         /\ (b[i] = 237 => b[i + 1] <= 159)
         /\ utf8_ok(b, i + 3)
    ELSE IF b[i] >= 240 /\ b[i] <= 244
    THEN /\ i + 3 <= Len(b)
         /\ IsCont(b[i + 1])
         /\ IsCont(b[i + 2])
         /\ IsCont(b[i + 3])
         /\ (b[i] = 240 => b[i + 1] >= 144)
         /\ (b[i] = 244 => b[i + 1] <= 143)
         /\ utf8_ok(b, i + 4)
    ELSE FALSE

\* kubeconfig_data = base64.b64decode(kubeconfig).decode('utf-8')
kubeconfig_data(blob) ==
    LET d == b64decode(blob) IN
    IF ~d.ok THEN [ok |-> FALSE, data |-> <<>>, type |-> "binascii.Error", msg |-> d.err]
    ELSE IF ~utf8_ok(d.data, 1)
    THEN [ok |-> FALSE, data |-> <<>>, type |-> "UnicodeDecodeError",
          msg |-> "'utf-8' codec can't decode byte"]
    ELSE [ok |-> TRUE, data |-> d.data, type |-> "", msg |-> ""]

\* ---------------------------------------------------------------------
\* State

VARIABLES
    pc,             \* pc[r]: position of request r's handler
    req,            \* req[r]: the parsed request body
    loc,            \* loc[r]: the handler's local variables
    resp,           \* resp[r]: the HTTP response of request r
    defaultConfig,  \* defaultConfig[app]: kubernetes.client default Configuration
    calls,          \* calls[r]: the platform calls request r has made, in order
    revision,       \* task definitions the ECS platform has registered
    loop            \* the request the strict app's event loop is running, or 0

vars == <<pc, req, loc, resp, defaultConfig, calls, revision, loop>>

NoReq ==
    [app |-> "", ep |-> "", kubeconfig |-> NoConfig, name |-> "", service |-> "",
     family |-> "", region |-> "", image |-> <<"", "">>, port |-> 0]

NoLoc == [data |-> NoConfig, cfg |-> NoConfig, arn |-> NoArn]

NoResp ==
    [status |-> 0, kind |-> "", msg |-> "", exc |-> "", why |-> "", errors |-> NoErrors]

Init ==
    /\ pc = [r \in Reqs |-> "idle"]
    /\ req = [r \in Reqs |-> NoReq]
    /\ loc = [r \in Reqs |-> NoLoc]
    /\ resp = [r \in Reqs |-> NoResp]
    /\ defaultConfig = [a \in Apps |-> NoConfig]
    /\ calls = [r \in Reqs |-> <<>>]
    /\ revision = 0
    /\ loop = 0

\* An exception: its class, its text, and what went wrong.
Exc(type, msg, why) == [type |-> type, msg |-> msg, why |-> why]

NoExc == Exc("", "", "")

\* HTTPException(status_code, detail) raised for exception e, or a returned body.
Response(status, kind, msg, e) ==
    [status |-> status, kind |-> kind, msg |-> msg, exc |-> e.type, why |-> e.why,
     errors |-> NoErrors]

\* FastAPI answers 422 itself when the body does not fit the pydantic model.
RequestValidationError(errs) ==
    [status |-> 422, kind |-> "RequestValidationError", msg |-> "",
     exc |-> "RequestValidationError", why |-> "validation", errors |-> errs]

\* A platform call as a fake client records it: arguments, outcome, return value.
Call(op, cfg, body, o, ret) ==
    [op |-> op, cfg |-> cfg, body |-> body, outcome |-> o, ret |-> ret]

\* request r makes the platform calls cs, in this order
Made(r, cs) == calls' = [calls EXCEPT ![r] = calls[r] \o cs]

\* request r ends with response rsp
Respond(r, rsp) ==
    /\ pc' = [pc EXCEPT ![r] = "done"]
    /\ resp' = [resp EXCEPT ![r] = rsp]

\* ---------------------------------------------------------------------
\* fastapi_k8s_deploy.py: POST /k8s-deploy

\* What create_namespaced_deployment raises.
ApiFailure(o) ==
    CASE o = "unauthorized" -> Exc("ApiException", "Unauthorized", o)
      [] o = "conflict" -> Exc("ApiException", "Conflict", o)
      [] o = "transport" -> Exc("MaxRetryError", "Max retries exceeded", o)

deploy_to_k8s_manifest_split(rq) ==
    [metadata_name |-> <<rq.name, "-deployment">>,
     replicas |-> 1,
     matchLabels |-> [app |-> <<rq.name>>],
     labels |-> [app |-> <<rq.name, "-deployment">>],
     container |-> [name |-> rq.name, image |-> rq.image, port |-> rq.port]]
\* client.V1Deployment(...)
deploy_to_k8s_manifest(rq) ==
    [metadata_name |-> <<rq.name, "-deployment">>,
     replicas |-> 1,
     matchLabels |-> [app |-> <<rq.name>>],
     labels |-> [app |-> <<rq.name>>],
     container |-> [name |-> rq.name, image |-> rq.image, port |-> rq.port]]

deploy_to_k8s_except_returns(e) == Response(200, "error", e.msg, e)
\* the except clauses of deploy_to_k8s
deploy_to_k8s_except(e) ==
    IF e.type = "ValidationError"
    THEN Response(400, "Validation error", e.msg, e)
    ELSE IF e.type = "ApiException"
    THEN Response(500, "Kubernetes API error", e.msg, e)
    ELSE Response(500, "Unexpected error", e.msg, e)

deploy_to_k8s_return == Response(200, "success", "Deployment created successfully", NoExc)

deploy_to_k8s_after_create_retry(o) == IF o = "ok" THEN "done" ELSE "create"
\* after create_namespaced_deployment the handler returns or raises: no loop
deploy_to_k8s_after_create(o) == "done"

\* FastAPI parses the body into a DeploymentRequest before the handler runs;
\* a body pydantic refuses never becomes a request object.
DeploymentRequest_parse(r) ==
    /\ pc[r] = "idle"
    /\ \E blob \in Blobs, name \in Names, region \in Regions,
          image \in Images, port \in Ports :
        LET errs == DeploymentDetails_errors(image, port)
            rq == [NoReq EXCEPT !.app = "strict", !.ep = "k8s", !.kubeconfig = blob,
                                !.name = name, !.region = region,
                                !.image = image, !.port = port]
        IN IF errs = NoErrors
           THEN /\ req' = [req EXCEPT ![r] = rq]
                /\ pc' = [pc EXCEPT ![r] = "decode"]
                /\ UNCHANGED resp
           ELSE /\ Respond(r, RequestValidationError(errs))
                /\ UNCHANGED req
    /\ UNCHANGED <<loc, defaultConfig, calls, revision, loop>>

\* line 44: the coroutine starts on the event loop and decodes the kubeconfig
deploy_to_k8s_decode(r) ==
    /\ pc[r] = "decode"
    /\ req[r].app = "strict"
    /\ loop = 0
    /\ LET d == kubeconfig_data(req[r].kubeconfig) IN
       IF d.ok
       THEN /\ pc' = [pc EXCEPT ![r] = "load"]
            /\ loc' = [loc EXCEPT ![r].data = d.data]
            /\ loop' = r
            /\ UNCHANGED resp
       ELSE /\ Respond(r, deploy_to_k8s_except(Exc(d.type, d.msg, "decode")))
            /\ UNCHANGED <<loc, loop>>
    /\ UNCHANGED <<req, defaultConfig, calls, revision>>

\* line 45: config.load_kube_config_from_dict sets the library's default
\* configuration, or raises.  Which of the two is the library's decision (the
\* handler hands it the decoded text, not a parsed dict), so both are possible.
deploy_to_k8s_load(r) ==
    /\ pc[r] = "load"
    /\ req[r].app = "strict"
    /\ loop = r
    /\ \/ /\ defaultConfig' = [defaultConfig EXCEPT !["strict"] = loc[r].data]
          /\ Made(r, << Call("load_kube_config_from_dict", loc[r].data, "", "ok", NoArn) >>)
          /\ pc' = [pc EXCEPT ![r] = "build"]
          /\ UNCHANGED <<resp, loop>>
       \/ /\ Made(r, << Call("load_kube_config_from_dict", loc[r].data, "", "invalid", NoArn) >>)
          /\ Respond(r, deploy_to_k8s_except(
                            Exc("ConfigException", "Invalid kube-config file", "load")))
          /\ loop' = 0
          /\ UNCHANGED defaultConfig
    /\ UNCHANGED <<req, loc, revision>>

\* lines 48-68: the manifest is built and AppsV1Api() takes the default
\* configuration of the library
deploy_to_k8s_build(r) ==
    /\ pc[r] = "build"
    /\ req[r].app = "strict"
    /\ loop = r
    /\ loc' = [loc EXCEPT ![r].cfg = defaultConfig["strict"]]
    /\ pc' = [pc EXCEPT ![r] = "create"]
    /\ UNCHANGED <<req, resp, defaultConfig, calls, revision, loop>>

\* lines 71-79: create_namespaced_deployment, then return or the except clauses
deploy_to_k8s_create(r) ==
    /\ pc[r] = "create"
    /\ req[r].app = "strict"
    /\ loop = r
    /\ \E o \in Outcomes :
        /\ Made(r, << Call("create_namespaced_deployment", loc[r].cfg,
                           deploy_to_k8s_manifest(req[r]), o, NoArn) >>)
        /\ IF deploy_to_k8s_after_create(o) = "done"
           THEN /\ Respond(r, IF o = "ok" THEN deploy_to_k8s_return
                              ELSE deploy_to_k8s_except(ApiFailure(o)))
                /\ loop' = 0
           ELSE UNCHANGED <<pc, resp, loop>>
    /\ UNCHANGED <<req, loc, defaultConfig, revision>>

\* ---------------------------------------------------------------------
\* fastapi_k8s_deploy.py: POST /ecs-deploy

\* What a boto3 ECS call raises.
AwsFailure(o) ==
    CASE o = "unauthorized" -> Exc("ClientError", "UnrecognizedClientException", o)
      [] o = "conflict" -> Exc("ClientError", "InvalidParameterException", o)
      [] o = "transport" -> Exc("BotoCoreError", "Could not connect to the endpoint URL", o)

\* The ARN the platform gives a newly registered task definition.
NewArn(family) == <<"arn", family, revision + 1>>

register_task_definition_request(rq) ==
    [family |-> rq.family,
     container |-> [name |-> rq.service, image |-> rq.image,
                    containerPort |-> rq.port, hostPort |-> rq.port, protocol |-> "tcp"]]

create_service_request_by_family(rq, arn) ==
    [cluster |-> rq.name, serviceName |-> rq.service,
     taskDefinition |-> <<"family", rq.family, 0>>,
     desiredCount |-> 1, launchType |-> "EC2"]
\* the arguments of ecs_client.create_service
create_service_request(rq, arn) ==
    [cluster |-> rq.name, serviceName |-> rq.service, taskDefinition |-> arn,
     desiredCount |-> 1, launchType |-> "EC2"]

\* the except clauses of deploy_to_ecs
deploy_to_ecs_except(e) ==
    IF e.type \in {"BotoCoreError", "ClientError"}
    THEN Response(500, "AWS SDK error", e.msg, e)
    ELSE Response(500, "Unexpected error", e.msg, e)

deploy_to_ecs_return ==
    Response(200, "success", "ECS deployment created successfully", NoExc)

deploy_to_ecs_after_register_ignoring(o) == "create_service"
\* an exception of register_task_definition leaves the try block
deploy_to_ecs_after_register(o) == IF o = "ok" THEN "create_service" ELSE "done"

\* FastAPI parses the body into an ECSDeploymentRequest before the handler runs.
ECSDeploymentRequest_parse(r) ==
    /\ pc[r] = "idle"
    /\ \E name \in Clusters, service \in Services, family \in Families,
          region \in Regions, image \in Images, port \in Ports :
        LET errs == DeploymentDetails_errors(image, port)
            rq == [NoReq EXCEPT !.app = "strict", !.ep = "ecs", !.name = name,
                                !.service = service, !.family = family,
                                !.region = region, !.image = image, !.port = port]
        IN IF errs = NoErrors
           THEN /\ req' = [req EXCEPT ![r] = rq]
                /\ pc' = [pc EXCEPT ![r] = "client"]
                /\ UNCHANGED resp
           ELSE /\ Respond(r, RequestValidationError(errs))
                /\ UNCHANGED req
    /\ UNCHANGED <<loc, defaultConfig, calls, revision, loop>>

\* lines 85-90: the coroutine starts on the event loop and builds the client
deploy_to_ecs_client(r) ==
    /\ pc[r] = "client"
    /\ req[r].app = "strict"
    /\ loop = 0
    /\ \/ /\ Made(r, << Call("boto3.client", NoConfig, req[r].region, "ok", NoArn) >>)
          /\ pc' = [pc EXCEPT ![r] = "register"]
          /\ loop' = r
          /\ UNCHANGED resp
       \/ /\ Made(r, << Call("boto3.client", NoConfig, req[r].region, "invalid", NoArn) >>)
          /\ Respond(r, deploy_to_ecs_except(
                            Exc("BotoCoreError", "Provided region_name doesn't match", "client")))
          /\ loop' = 0
    /\ UNCHANGED <<req, loc, defaultConfig, revision>>

\* lines 93-108: register_task_definition
deploy_to_ecs_register(r) ==
    /\ pc[r] = "register"
    /\ req[r].app = "strict"
    /\ loop = r
    /\ \E o \in Outcomes :
        LET task_definition == IF o = "ok" THEN NewArn(req[r].family) ELSE NoArn IN
        /\ Made(r, << Call("register_task_definition", NoConfig,
                           register_task_definition_request(req[r]), o, task_definition) >>)
        /\ loc' = [loc EXCEPT ![r].arn = task_definition]
        /\ revision' = IF o = "ok" THEN revision + 1 ELSE revision
        /\ IF deploy_to_ecs_after_register(o) = "done"
           THEN /\ Respond(r, deploy_to_ecs_except(AwsFailure(o)))
                /\ loop' = 0
           ELSE /\ pc' = [pc EXCEPT ![r] = deploy_to_ecs_after_register(o)]
                /\ UNCHANGED <<resp, loop>>
    /\ UNCHANGED <<req, defaultConfig>>

\* lines 111-130: create_service, then return or the except clauses
deploy_to_ecs_create_service(r) ==
    /\ pc[r] = "create_service"
    /\ req[r].app = "strict"
    /\ loop = r
    /\ \E o \in Outcomes :
        /\ Made(r, << Call("create_service", NoConfig,
                           create_service_request(req[r], loc[r].arn), o, NoArn) >>)
        /\ Respond(r, IF o = "ok" THEN deploy_to_ecs_return
                      ELSE deploy_to_ecs_except(AwsFailure(o)))
    /\ loop' = 0
    /\ UNCHANGED <<req, loc, defaultConfig, revision>>

\* ---------------------------------------------------------------------
\* fastapi2.py: POST /k8s-deploy (a plain def: runs in the thread pool)

\* client.V1Deployment(...)
k8s_deploy_manifest(rq) ==
    [metadata_name |-> <<rq.name>>,
     replicas |-> 1,
     matchLabels |-> [app |-> <<rq.name>>],
     labels |-> [app |-> <<rq.name>>],
     container |-> [name |-> rq.name, image |-> rq.image, port |-> rq.port]]

\* except Exception as e: raise HTTPException(status_code=400, detail=str(e))
k8s_deploy_except(e) == Response(400, "", e.msg, e)

k8s_deploy_return == Response(200, "", "Deployment successful", NoExc)

\* FastAPI parses the body into a K8sDeployRequest before the handler runs.
K8sDeployRequest_parse(r) ==
    /\ pc[r] = "idle"
    /\ \E path \in Paths, name \in Clusters, region \in Regions,
          image \in LegacyImages, port \in Ports :
        LET errs == K8sDeployRequest_errors(image, port)
            rq == [NoReq EXCEPT !.app = "legacy", !.ep = "k8s", !.kubeconfig = path,
                                !.name = name, !.region = region,
                                !.image = image, !.port = port]
        IN IF errs = NoErrors
           THEN /\ req' = [req EXCEPT ![r] = rq]
                /\ pc' = [pc EXCEPT ![r] = "load"]
                /\ UNCHANGED resp
           ELSE /\ Respond(r, RequestValidationError(errs))
                /\ UNCHANGED req
    /\ UNCHANGED <<loc, defaultConfig, calls, revision, loop>>

\* line 26: config.load_kube_config(config_file=...) sets the library's
\* default configuration, or raises
k8s_deploy_load(r) ==
    /\ pc[r] = "load"
    /\ req[r].app = "legacy"
    /\ \/ /\ defaultConfig' = [defaultConfig EXCEPT !["legacy"] = req[r].kubeconfig]
          /\ Made(r, << Call("load_kube_config", req[r].kubeconfig, "", "ok", NoArn) >>)
          /\ pc' = [pc EXCEPT ![r] = "build"]
          /\ UNCHANGED resp
       \/ /\ Made(r, << Call("load_kube_config", req[r].kubeconfig, "", "invalid", NoArn) >>)
          /\ Respond(r, k8s_deploy_except(
                            Exc("ConfigException", "Invalid kube-config file", "load")))
          /\ UNCHANGED defaultConfig
    /\ UNCHANGED <<req, loc, revision, loop>>

\* lines 27-47: CoreV1Api(), the manifest, and AppsV1Api() taking the default
\* configuration of the library
k8s_deploy_build(r) ==
    /\ pc[r] = "build"
    /\ req[r].app = "legacy"
    /\ loc' = [loc EXCEPT ![r].cfg = defaultConfig["legacy"]]
    /\ pc' = [pc EXCEPT ![r] = "create"]
    /\ UNCHANGED <<req, resp, defaultConfig, calls, revision, loop>>

\* lines 48-51: create_namespaced_deployment, then return or the except clause
k8s_deploy_create(r) ==
    /\ pc[r] = "create"
    /\ req[r].app = "legacy"
    /\ \E o \in Outcomes :
        /\ Made(r, << Call("create_namespaced_deployment", loc[r].cfg,
                           k8s_deploy_manifest(req[r]), o, NoArn) >>)
        /\ Respond(r, IF o = "ok" THEN k8s_deploy_return
                      ELSE k8s_deploy_except(ApiFailure(o)))
    /\ UNCHANGED <<req, loc, defaultConfig, revision, loop>>

\* ---------------------------------------------------------------------
\* fastapi2.py: POST /ecs-deploy

ecs_deploy_except(e) == Response(400, "", e.msg, e)

ecs_deploy_return == Response(200, "", "Deployment successful", NoExc)

run_task_request(rq) ==
    [cluster |-> rq.name, taskDefinition |-> rq.image, launchType |-> "FARGATE",
     container |-> [name |-> rq.name, image |-> rq.image,
                    containerPort |-> rq.port, hostPort |-> rq.port, protocol |-> "tcp"]]

\* FastAPI parses the body into an EcsDeployRequest: pydantic keeps the
\* declared fields of the body and drops the others.
EcsDeployRequest_parse(r) ==
    /\ pc[r] = "idle"
    /\ \E name \in Clusters, region \in Regions, image \in LegacyImages, port \in Ports :
        LET rq == [NoReq EXCEPT !.app = "legacy", !.ep = "ecs", !.name = name,
                                !.region = IF "region" \in EcsDeployRequestFields
                                           THEN region ELSE "",
                                !.image = image, !.port = port]
        IN req' = [req EXCEPT ![r] = rq]
    /\ pc' = [pc EXCEPT ![r] = "ecs"]
    /\ UNCHANGED <<loc, resp, defaultConfig, calls, revision, loop>>

\* lines 55-84: the arguments of boto3.client are evaluated first, and
\* request.region raises AttributeError when the model has no such field
ecs_deploy(r) ==
    /\ pc[r] = "ecs"
    /\ req[r].app = "legacy"
    /\ IF "region" \notin EcsDeployRequestFields
       THEN /\ Respond(r, ecs_deploy_except(
                    Exc("AttributeError",
                        "'EcsDeployRequest' object has no attribute 'region'",
                        "attribute")))
            /\ UNCHANGED calls
       ELSE \E o \in Outcomes :
            /\ Made(r, << Call("boto3.client", NoConfig, req[r].region, "ok", NoArn),
                          Call("run_task", NoConfig, run_task_request(req[r]), o, NoArn) >>)
            /\ Respond(r, IF o = "ok" THEN ecs_deploy_return
                          ELSE ecs_deploy_except(AwsFailure(o)))
    /\ UNCHANGED <<req, loc, defaultConfig, revision, loop>>

\* ---------------------------------------------------------------------
\* The two services are separate processes.

NextStrict ==
    \E r \in Reqs :
        \/ DeploymentRequest_parse(r)
        \/ deploy_to_k8s_decode(r)
        \/ deploy_to_k8s_load(r)
        \/ deploy_to_k8s_build(r)
        \/ deploy_to_k8s_create(r)
        \/ ECSDeploymentRequest_parse(r)
        \/ deploy_to_ecs_client(r)
        \/ deploy_to_ecs_register(r)
        \/ deploy_to_ecs_create_service(r)

NextLegacy ==
    \E r \in Reqs :
        \/ K8sDeployRequest_parse(r)
        \/ k8s_deploy_load(r)
        \/ k8s_deploy_build(r)
        \/ k8s_deploy_create(r)
        \/ EcsDeployRequest_parse(r)
        \/ ecs_deploy(r)

\* fastapi_k8s_deploy.py
Spec == Init /\ [][NextStrict]_vars

\* fastapi2.py
SpecLegacy == Init /\ [][NextLegacy]_vars

\* ---------------------------------------------------------------------
\* Properties

\* the positions at which request r called op
CallsOf(r, op) == {i \in DOMAIN calls[r] : calls[r][i].op = op}

Done(r) == pc[r] = "done"

IsK8s(r) == req[r].ep = "k8s"

IsEcs(r) == req[r].ep = "ecs"

\* the port a received request carried: in the request object, or in the
\* 422 answer that refused it
RawPorts(r) ==
    IF req[r] # NoReq THEN {req[r].port} ELSE resp[r].errors.container_port

ValidationRejected(r) ==
    Done(r) /\ resp[r].status \in {400, 422} /\ resp[r].why = "validation"

\* C1: a request whose port is outside 1..65535 is rejected with a validation
\* error and makes no platform call and constructs no client.
C1_BadPortRejectedBeforePlatform ==
    \A r \in Reqs : \A p \in RawPorts(r) :
        (pc[r] # "idle" /\ (p < 1 \/ p > 65535))
            => /\ calls[r] = <<>>
               /\ (Done(r) => ValidationRejected(r))

\* C2: when register_task_definition fails, the request makes no
\* create_service call.
C2_NoServiceAfterFailedRegistration ==
    \A r \in Reqs :
        (\E i \in CallsOf(r, "register_task_definition") : calls[r][i].outcome # "ok")
            => CallsOf(r, "create_service") = {}

C2_Witness ==
    \E r \in Reqs :
        /\ Done(r)
        /\ \E i \in CallsOf(r, "register_task_definition") :
                calls[r][i].outcome = "transport"
        /\ resp[r].status = 500

\* the configuration loaded from request r's own credentials
OwnConfig(r) == IF req[r].app = "strict" THEN loc[r].data ELSE req[r].kubeconfig

\* C3: every create_namespaced_deployment call is made with the client
\* configuration loaded from the calling request's own credentials.
C3_CreateUsesOwnConfig ==
    \A r \in Reqs : \A i \in CallsOf(r, "create_namespaced_deployment") :
        calls[r][i].cfg = OwnConfig(r)

\* RFC 4648 base64 text: groups of four alphabet characters, the last group
\* padded with at most two '='.
IsValidBase64(s) ==
    /\ Len(s) % 4 = 0
    /\ \A i \in DOMAIN s :
        \/ B64Table(s[i]) < 64
        \/ /\ s[i] = 61
           /\ i >= Len(s) - 1
           /\ (i = Len(s) - 1 => s[Len(s)] = 61)

\* C4: a /k8s-deploy request whose cluster config is not valid base64 is
\* answered 400 and makes no create_namespaced_deployment call.
C4_MalformedBase64Is400 ==
    \A r \in Reqs :
        (Done(r) /\ req[r].app = "strict" /\ IsK8s(r) /\ ~IsValidBase64(req[r].kubeconfig))
            => /\ resp[r].status = 400
               /\ CallsOf(r, "create_namespaced_deployment") = {}

\* a step of request r failed: the kubeconfig did not decode, or a call raised
StepFailed(r) ==
    \/ (req[r].app = "strict" /\ IsK8s(r) /\ pc[r] # "decode"
            /\ ~kubeconfig_data(req[r].kubeconfig).ok)
    \/ \E i \in DOMAIN calls[r] : calls[r][i].outcome # "ok"

\* C5: a request in which a step failed ends with a non-2xx response that
\* carries a message, and a finished request answered 2xx had no failed step.
C5_FailureIsNeverSuccess ==
    \A r \in Reqs :
        (Done(r) /\ req[r] # NoReq)
            => /\ resp[r].status # 0
               /\ StepFailed(r) =>
                    (resp[r].status >= 400 /\ resp[r].status <= 599 /\ resp[r].msg # "")
               /\ (resp[r].status >= 200 /\ resp[r].status <= 299) =>
                    ~StepFailed(r)

C5_Witness ==
    \E r1, r2 \in Reqs :
        /\ Done(r1) /\ IsK8s(r1) /\ resp[r1].why = "decode" /\ resp[r1].status = 500
        /\ Done(r2) /\ IsEcs(r2) /\ resp[r2].why = "transport" /\ resp[r2].status = 500

\* C6: in every manifest handed to create_namespaced_deployment, the selector
\* matchLabels and the pod-template labels are both {app: X}, X the request name.
C6_SelectorEqualsLabels ==
    \A r \in Reqs : \A i \in CallsOf(r, "create_namespaced_deployment") :
        /\ calls[r][i].body.matchLabels = calls[r][i].body.labels
        /\ calls[r][i].body.labels = [app |-> <<req[r].name>>]

C6_Witness ==
    \E r1, r2 \in Reqs :
        /\ req[r1].name = "web" /\ CallsOf(r1, "create_namespaced_deployment") # {}
        /\ req[r2].name = "api" /\ CallsOf(r2, "create_namespaced_deployment") # {}

DispatchOps == {"create_namespaced_deployment", "register_task_definition", "create_service"}

\* C7: a request makes each of its platform calls at most once, also after a
\* failure, and every request that gets as far as a platform call makes it,
\* whatever the other requests were.
C7_DispatchOncePerRequest ==
    \A r \in Reqs :
        /\ \A op \in DispatchOps : Cardinality(CallsOf(r, op)) <= 1
        /\ (Done(r) /\ IsK8s(r) /\ resp[r].why \notin {"decode", "load"})
                => Cardinality(CallsOf(r, "create_namespaced_deployment")) = 1
        /\ (Done(r) /\ IsEcs(r) /\ resp[r].why # "client")
                => Cardinality(CallsOf(r, "register_task_definition")) = 1
        /\ (Done(r) /\ IsEcs(r)
                /\ \E i \in CallsOf(r, "register_task_definition") : calls[r][i].outcome = "ok")
                => Cardinality(CallsOf(r, "create_service")) = 1

C7_Witness ==
    \E r1, r2 \in Reqs :
        /\ r1 # r2
        /\ req[r1] = req[r2]
        /\ Done(r1) /\ Done(r2) /\ IsK8s(r1)
        /\ resp[r1].status = 200
        /\ resp[r2].why = "conflict"
        /\ CallsOf(r1, "create_namespaced_deployment") # {}
        /\ CallsOf(r2, "create_namespaced_deployment") # {}

\* C8: the status and error kind answered for a credential-shaped failure
\* (config decode failure, platform authentication rejection) differ from
\* those answered for an ordinary platform rejection.
C8_CredentialErrorsDistinct ==
    \A r1, r2 \in Reqs :
        (/\ Done(r1) /\ Done(r2)
         /\ req[r1].ep = req[r2].ep
         /\ resp[r1].why \in {"decode", "unauthorized"}
         /\ resp[r2].why = "conflict")
            => <<resp[r1].status, resp[r1].kind>> # <<resp[r2].status, resp[r2].kind>>

\* C9: every create_service call comes after a successful
\* register_task_definition call of the same request and carries the ARN that
\* call returned, which no other request was given.
C9_ServiceUsesOwnArn ==
    \A r \in Reqs : \A i \in CallsOf(r, "create_service") :
        \E j \in CallsOf(r, "register_task_definition") :
            /\ j < i
            /\ calls[r][j].outcome = "ok"
            /\ calls[r][j].ret # NoArn
            /\ calls[r][i].body.taskDefinition = calls[r][j].ret
            /\ \A r2 \in Reqs \ {r} : \A k \in DOMAIN calls[r2] :
                    calls[r2][k].ret # calls[r][j].ret

C9_Witness ==
    \E r1, r2 \in Reqs :
        /\ r1 # r2
        /\ CallsOf(r1, "create_service") # {}
        /\ CallsOf(r2, "create_service") # {}
        /\ pc[r1] = "done" /\ pc[r2] = "done"

\* C10: the /ecs-deploy handler of fastapi2.py never calls run_task, builds no
\* client, and always ends with HTTP 400.
C10_LegacyEcsAlways400 ==
    \A r \in Reqs :
        (req[r].app = "legacy" /\ IsEcs(r))
            => /\ calls[r] = <<>>
               /\ (Done(r) => (resp[r].status = 400 /\ resp[r].exc = "AttributeError"))

C10_Witness ==
    \E r \in Reqs :
        /\ req[r].app = "legacy" /\ IsEcs(r) /\ Done(r)
        /\ resp[r].status = 400

====
